---- MODULE Spec2Model ----
(***************************************************************************)
(* Model of backend/ai_generator.py: AIGenerator.generate_response, the    *)
(* retry boundary _make_api_call_with_retry and the round-bounded tool     *)
(* loop _execute_tool_loop.  One behaviour is one generate_response run.   *)
(* Under Spec the language-model service and the tool manager are the      *)
(* environment: every attempt may succeed with any response or fail with   *)
(* any error class, every tool execution may return or raise.  Under       *)
(* RagSpec the run is handed the tool manager of backend/search_tools.py   *)
(* with the search tool over backend/vector_store.py behind it, and the    *)
(* tool manager is also called directly, as its tests call it.             *)
(***************************************************************************)
EXTENDS Integers, Sequences, FiniteSets, TLC

VARIABLES
    pc,               \* control point of the run
    tools,            \* generate_response argument `tools` is truthy
    tool_manager,     \* generate_response argument `tool_manager` is truthy
    messages,         \* api_params["messages"] / the local list `messages`
    current_response, \* `response` / `current_response`
    tool_use_round,   \* local counter of _execute_tool_loop
    blk,              \* position of the `for content_block in ...` loop
    tool_results,     \* local list `tool_results`
    site,             \* which call of _make_api_call_with_retry is running
    attempt,          \* loop variable of _make_api_call_with_retry
    last_exception,   \* local of _make_api_call_with_retry
    delays,           \* history: the time.sleep arguments of the running call
    tries,            \* history: client.messages.create invocations of that call
    errors,           \* history: the error classes that call has met, in order
    requests,         \* history: the api_params of every logical model call
    responses,        \* history: every response client.messages.create returned
    executed,         \* history: ids passed to tool_manager.execute_tool, in order
    faults,           \* history: <<id, message>> of the executions that raised
    result,           \* the value generate_response returned
    exc,              \* the exception generate_response raised
    manager_tools,    \* ToolManager.tools: the names of the registered tools
    last_sources,     \* the source accumulator the tool manager exposes
    catalog,          \* the course titles of the vector store's catalog
    last_call,        \* history: the last direct call of the tool manager
    threads,          \* the frames of the queries a host serves concurrently
    max_retries       \* self.max_retries, set to 3 by __init__

vars == << pc, tools, tool_manager, messages, current_response, tool_use_round,
           blk, tool_results, site, attempt, last_exception, delays, tries,
           errors, requests, responses, executed, faults, result, exc,
           manager_tools, last_sources, catalog, last_call, threads, max_retries >>

\* the state of one generate_response run
run_vars == << pc, tools, tool_manager, messages, current_response,
               tool_use_round, blk, tool_results, site, attempt, last_exception,
               delays, tries, errors, requests, responses, executed, faults,
               result, exc >>

\* the state of the tool manager and of the vector store behind it
rag_vars == << manager_tools, last_sources, catalog, last_call >>

(***************************************************************************)
(* Program constants and the bound of the model.                           *)
(***************************************************************************)
MAX_TOOL_ROUNDS == 2
retry_delay == 1
\* longest content list the modelled service returns
MaxBlocks == 2
\* most content blocks the modelled service returns over one run
MaxRunBlocks == 5

NoResult == << >>
NoCall == [op |-> "None"]
NoSite == "None"
Query == "query"
ToolNames == {"search_course_content"}
ToolOutput == "tool output"
ToolFaults == {"boom"}
StopReasons == {"end_turn", "tool_use"}

RetryableErrors == {"RateLimitError", "APIConnectionError", "APITimeoutError"}
NonRetryableErrors == {"AuthenticationError", "BadRequestError", "Exception"}
ApiErrors == RetryableErrors \cup NonRetryableErrors

(***************************************************************************)
(* Content blocks.  The n-th response's block at position p carries the    *)
(* tag <<n, p>>: the text of a text block, the id of a tool-use block.     *)
(***************************************************************************)
TextBlock(t) == [type |-> "text", text |-> t]
ToolUseBlock(i, n) == [type |-> "tool_use", id |-> i, name |-> n]

BlocksAt(n, p) ==
    {TextBlock(<<n, p>>)} \cup {ToolUseBlock(<<n, p>>, nm) : nm \in ToolNames}

RECURSIVE ContentsOfLen(_, _)
ContentsOfLen(n, len) ==
    IF len = 0 THEN {<< >>}
    ELSE {Append(c, b) : c \in ContentsOfLen(n, len - 1), b \in BlocksAt(n, len)}

Min(a, b) == IF a < b THEN a ELSE b

\* every content list the n-th response may carry when `room` blocks are left
Contents(n, room) ==
    UNION {ContentsOfLen(n, len) : len \in 0..Min(MaxBlocks, room)}

Response(stop, content) == [stop_reason |-> stop, content |-> content]

RECURSIVE BlocksIn(_)
BlocksIn(rs) ==
    IF rs = << >> THEN 0 ELSE Len(Head(rs).content) + BlocksIn(Tail(rs))

(***************************************************************************)
(* Pure pieces of the code.                                                *)
(***************************************************************************)
\* mutants of the loop test: one round too many, one round too few
LoopContinuesOneMore(round) == round <= MAX_TOOL_ROUNDS
LoopContinuesOneLess(round) == round < MAX_TOOL_ROUNDS - 1

\* while tool_use_round < self.MAX_TOOL_ROUNDS
LoopContinues(round) == round < MAX_TOOL_ROUNDS

\* mutant: gives up one attempt early
RetryAllowedOneLess(a) == a < max_retries - 2

\* if attempt < self.max_retries - 1
RetryAllowed(a) == a < max_retries - 1

\* mutant: the exponent counts from the next attempt
BackoffDelayShifted(a) == retry_delay * (2 ^ (a + 1))

\* delay = self.retry_delay * (2 ** attempt)
BackoffDelay(a) == retry_delay * (2 ^ a)

\* mutant: unclassified errors are retried too
IsRetryableOrUnknown(kind) == kind \in RetryableErrors \cup {"Exception"}

\* the except clauses that retry
IsRetryable(kind) == kind \in RetryableErrors

\* an error instance: its class and the attempt of the call that observed it
ApiError(kind, call, a) == [type |-> kind, call |-> call, attempt |-> a]
PyError(kind) == [type |-> kind, call |-> 0, attempt |-> 0]
NoError == PyError("None")
NoResponse == Response("None", << >>)

\* response.content[0].text evaluates
HasFirstText(r) == Len(r.content) > 0 /\ r.content[1].type = "text"

\* what response.content[0].text raises otherwise
FirstTextFault(r) ==
    IF Len(r.content) = 0 THEN PyError("IndexError") ELSE PyError("AttributeError")

\* tool_result = f"Error executing tool: {str(e)}"
ToolErrorText(msg) == "Error executing tool: " \o msg

\* mutant: every result carries the id of the response's first block
ToolResultFirstId(block, text) ==
    [type |-> "tool_result", tool_use_id |-> << block.id[1], 1 >>, content |-> text]

\* {"type": "tool_result", "tool_use_id": content_block.id, "content": tool_result}
ToolResult(block, text) ==
    [type |-> "tool_result", tool_use_id |-> block.id, content |-> text]

UserMessage(content) == [role |-> "user", content |-> content]
AssistantMessage(content) == [role |-> "assistant", content |-> content]

\* mutant: only the result of the last tool call is submitted
WithLastToolResult(msgs, results) ==
    IF results # << >>
    THEN Append(msgs, UserMessage(<< results[Len(results)] >>)) ELSE msgs

RECURSIVE AppendEach(_, _)
AppendEach(msgs, results) ==
    IF results = << >> THEN msgs
    ELSE AppendEach(Append(msgs, UserMessage(<< Head(results) >>)), Tail(results))

\* mutant: every tool result is submitted as a user turn of its own
WithToolResultsEach(msgs, results) == AppendEach(msgs, results)

\* mutant: the tool-result turn overwrites the assistant turn it answers
WithToolResultsReplacing(msgs, results) ==
    IF results # << >>
    THEN Append(SubSeq(msgs, 1, Len(msgs) - 1), UserMessage(results)) ELSE msgs

\* if tool_results: messages.append({"role": "user", "content": tool_results})
WithToolResults(msgs, results) ==
    IF results # << >> THEN Append(msgs, UserMessage(results)) ELSE msgs

\* AIGenerator.SYSTEM_PROMPT
SYSTEM_PROMPT == "system prompt"

\* the conversation_history argument: None, or the formatted history of a
\* session that has had an exchange
NoHistory == << >>
SessionHistory == << "User: hi\nAssistant: hello" >>

\* system_content of generate_response
SystemContent(history) ==
    IF history # << >>
    THEN SYSTEM_PROMPT \o "\n\nPrevious conversation:\n" \o history[1]
    ELSE SYSTEM_PROMPT

\* the api_params of one logical call
Request(msgs, withTools, system) ==
    [messages |-> msgs, tools |-> withTools, tool_choice |-> withTools,
     system |-> system]

\* the queries a host serves at the same time on one AIGenerator
Threads == {1, 2}

\* the locals of a query that has not begun
NoFrame ==
    [pc |-> "idle", messages |-> << >>, current_response |-> NoResponse,
     tool_use_round |-> 0, blk |-> 0, tool_results |-> << >>, site |-> NoSite,
     requests |-> << >>, emitted |-> << >>, result |-> NoResult,
     sources |-> << >>]

NoThreads == [r \in Threads |-> NoFrame]

\* no generate_response run has begun
NoRun ==
    /\ pc = "idle"
    /\ tools = FALSE
    /\ tool_manager = FALSE
    /\ messages = << >>
    /\ current_response = NoResponse
    /\ tool_use_round = 0
    /\ blk = 0
    /\ tool_results = << >>
    /\ site = NoSite
    /\ attempt = 0
    /\ last_exception = NoError
    /\ delays = << >>
    /\ requests = << >>
    /\ responses = << >>
    /\ tries = 0
    /\ errors = << >>
    /\ executed = << >>
    /\ faults = << >>
    /\ result = NoResult
    /\ exc = NoError

Init ==
    /\ NoRun
    \* a tool manager that is a stand-in has no state of its own
    /\ manager_tools = {}
    /\ last_sources = << >>
    /\ catalog = {}
    /\ last_call = NoCall
    /\ threads = NoThreads
    /\ max_retries = 3

\* the base_params of _execute_tool_loop: the api_params of the first call
base_params == requests[1]

(***************************************************************************)
(* Steps shared by several actions.                                        *)
(***************************************************************************)
\* mutant: the attempt index is kept for the run, each call starts where the
\* calls before it left off
BeginCallSharedBudget(s, msgs, withTools, system) ==
    /\ pc' = "api"
    /\ site' = s
    /\ attempt' = Len(requests)
    /\ last_exception' = NoError
    /\ delays' = << >>
    /\ tries' = 0
    /\ errors' = << >>
    /\ requests' = Append(requests, Request(msgs, withTools, system))

\* entry of _make_api_call_with_retry(api_params)
BeginCall(s, msgs, withTools, system) ==
    /\ pc' = "api"
    /\ site' = s
    /\ attempt' = 0
    /\ last_exception' = NoError
    /\ delays' = << >>
    /\ tries' = 0
    /\ errors' = << >>
    /\ requests' = Append(requests, Request(msgs, withTools, system))

\* an exception leaves generate_response
Raise(e) ==
    /\ pc' = "raised"
    /\ exc' = e
    /\ result' = result

\* mutant: returns the text of the last block instead of the first
ReturnLastText(r) ==
    IF HasFirstText(r)
    THEN /\ pc' = "returned"
         /\ result' = IF r.content[Len(r.content)].type = "text"
                       THEN r.content[Len(r.content)].text
                       ELSE r.content[1].text
         /\ exc' = exc
    ELSE Raise(FirstTextFault(r))

\* return response.content[0].text
ReturnText(r) ==
    IF HasFirstText(r)
    THEN /\ pc' = "returned"
         /\ result' = r.content[1].text
         /\ exc' = exc
    ELSE Raise(FirstTextFault(r))

\* mutant: the response of the final call is fed back into the loop
AfterCallReentersLoop(s) ==
    CASE s = "first" -> "first_response"
      [] s = "loop" -> "loop_head"
      [] s = "final" -> "after_loop"

\* where control continues when _make_api_call_with_retry returns
AfterCall(s) ==
    CASE s = "first" -> "first_response"
      [] s = "loop" -> "loop_head"
      [] s = "final" -> "return"

(***************************************************************************)
(* generate_response, up to its call of _make_api_call_with_retry.         *)
(***************************************************************************)
generate_response ==
    /\ pc = "idle"
    /\ \E t \in BOOLEAN, m \in BOOLEAN :
          /\ tools' = t
          /\ tool_manager' = m
          /\ messages' = << UserMessage(Query) >>
          \* the query of a session that has a history
          /\ BeginCall("first", messages', t, SystemContent(SessionHistory))
    /\ UNCHANGED << current_response, tool_use_round, blk, tool_results,
                    responses, executed, faults, result, exc >>
    /\ UNCHANGED << rag_vars, threads, max_retries >>

(***************************************************************************)
(* _make_api_call_with_retry: one iteration of `for attempt in range`.     *)
(***************************************************************************)
\* client.messages.create returns: return response
ApiSuccess ==
    /\ pc = "api"
    /\ attempt < max_retries
    /\ \E stop \in StopReasons, content \in Contents(Len(requests), MaxRunBlocks - BlocksIn(responses)) :
          /\ current_response' = Response(stop, content)
          /\ responses' = Append(responses, Response(stop, content))
    /\ pc' = AfterCall(site)
    \* the frame of _make_api_call_with_retry is left
    /\ attempt' = 0
    /\ last_exception' = NoError
    /\ delays' = << >>
    /\ tries' = 0
    /\ errors' = << >>
    /\ UNCHANGED << tools, tool_manager, messages, tool_use_round, blk,
                    tool_results, site, requests, executed, faults, result, exc >>
    /\ UNCHANGED << rag_vars, threads, max_retries >>

\* mutant: the retry wraps the round, so its tool calls are executed again
ApiRetryableErrorRedoesRound ==
    /\ pc = "api"
    /\ attempt < max_retries
    /\ \E kind \in RetryableErrors :
          LET e == ApiError(kind, Len(requests), attempt) IN
          /\ last_exception' = e
          /\ errors' = Append(errors, kind)
          /\ IF RetryAllowed(attempt)
             THEN /\ delays' = Append(delays, BackoffDelay(attempt))
                  /\ attempt' = attempt + 1
                  /\ UNCHANGED << pc, result, exc >>
             ELSE /\ delays' = delays
                  /\ attempt' = attempt
                  /\ Raise(e)
    /\ tries' = tries + 1
    /\ executed' =
          IF RetryAllowed(attempt) /\ site # "first"
          THEN LET uses == SelectSeq(current_response.content,
                                     LAMBDA b : b.type = "tool_use")
               IN  executed \o [i \in 1..Len(uses) |-> uses[i].id]
          ELSE executed
    /\ UNCHANGED << tools, tool_manager, messages, current_response,
                    tool_use_round, blk, tool_results, site, requests,
                    responses, faults >>
    /\ UNCHANGED << rag_vars, threads, max_retries >>

\* mutant: every error class has an attempt budget of its own
ApiRetryableErrorPerClass ==
    /\ pc = "api"
    /\ attempt < max_retries
    /\ \E kind \in RetryableErrors :
          LET e == ApiError(kind, Len(requests), attempt)
              a == IF last_exception.type \in {"None", kind} THEN attempt ELSE 0
          IN
          /\ last_exception' = e
          /\ errors' = Append(errors, kind)
          /\ IF RetryAllowed(a)
             THEN /\ delays' = Append(delays, BackoffDelay(a))
                  /\ attempt' = a + 1
                  /\ UNCHANGED << pc, result, exc >>
             ELSE /\ delays' = delays
                  /\ attempt' = attempt
                  /\ Raise(e)
    /\ tries' = tries + 1
    /\ UNCHANGED << tools, tool_manager, messages, current_response,
                    tool_use_round, blk, tool_results, site, requests,
                    responses, executed, faults >>
    /\ UNCHANGED << rag_vars, threads, max_retries >>

\* mutant: a retry is sent without the tool definitions
ApiRetryableErrorDropsTools ==
    /\ pc = "api"
    /\ attempt < max_retries
    /\ \E kind \in RetryableErrors :
          LET e == ApiError(kind, Len(requests), attempt) IN
          /\ last_exception' = e
          /\ errors' = Append(errors, kind)
          /\ IF RetryAllowed(attempt)
             THEN /\ delays' = Append(delays, BackoffDelay(attempt))
                  /\ attempt' = attempt + 1
                  /\ requests' = [requests EXCEPT ![Len(requests)] =
                                     Request(@.messages, FALSE, @.system)]
                  /\ UNCHANGED << pc, result, exc >>
             ELSE /\ delays' = delays
                  /\ attempt' = attempt
                  /\ requests' = requests
                  /\ Raise(e)
    /\ tries' = tries + 1
    /\ UNCHANGED << tools, tool_manager, messages, current_response,
                    tool_use_round, blk, tool_results, site,
                    responses, executed, faults >>
    /\ UNCHANGED << rag_vars, threads, max_retries >>

\* except RateLimitError / APIConnectionError / APITimeoutError
ApiRetryableError ==
    /\ pc = "api"
    /\ attempt < max_retries
    /\ \E kind \in ApiErrors :
          /\ IsRetryable(kind)
          /\ LET e == ApiError(kind, Len(requests), attempt) IN
             /\ last_exception' = e
             /\ errors' = Append(errors, kind)
             /\ IF RetryAllowed(attempt)
                THEN /\ delays' = Append(delays, BackoffDelay(attempt))
                     /\ IF attempt + 1 < max_retries
                        THEN /\ attempt' = attempt + 1
                             /\ UNCHANGED << pc, result, exc >>
                        ELSE \* range exhausted: raise last_exception
                             /\ attempt' = attempt
                             /\ Raise(e)
                ELSE /\ delays' = delays
                     /\ attempt' = attempt
                     /\ Raise(e)
    /\ tries' = tries + 1
    /\ UNCHANGED << tools, tool_manager, messages, current_response,
                    tool_use_round, blk, tool_results, site, requests,
                    responses, executed, faults >>
    /\ UNCHANGED << rag_vars, threads, max_retries >>

\* mutant: after the first call a fatal error is swallowed and the loop goes on
ApiFatalErrorSwallowed ==
    /\ pc = "api"
    /\ attempt < max_retries
    /\ \E kind \in ApiErrors :
          /\ ~IsRetryable(kind)
          /\ errors' = Append(errors, kind)
          /\ IF site = "first"
             THEN Raise(ApiError(kind, Len(requests), attempt))
             ELSE /\ pc' = AfterCall(site)
                  /\ UNCHANGED << result, exc >>
    /\ tries' = tries + 1
    /\ UNCHANGED << tools, tool_manager, messages, current_response,
                    tool_use_round, blk, tool_results, site, attempt,
                    last_exception, delays, requests, responses, executed, faults >>
    /\ UNCHANGED << rag_vars, threads, max_retries >>

\* except (AuthenticationError, BadRequestError) / except Exception: raise
ApiFatalError ==
    /\ pc = "api"
    /\ attempt < max_retries
    /\ \E kind \in ApiErrors :
          /\ ~IsRetryable(kind)
          /\ Raise(ApiError(kind, Len(requests), attempt))
          /\ errors' = Append(errors, kind)
    /\ tries' = tries + 1
    /\ UNCHANGED << tools, tool_manager, messages, current_response,
                    tool_use_round, blk, tool_results, site, attempt,
                    last_exception, delays, requests, responses, executed, faults >>
    /\ UNCHANGED << rag_vars, threads, max_retries >>

\* the for loop ends without a return or a raise:
\* if last_exception: raise last_exception; otherwise the function ends
\* and the caller is handed None
RetriesExhausted ==
    /\ pc = "api"
    /\ ~(attempt < max_retries)
    /\ IF last_exception # NoError
       THEN /\ Raise(last_exception)
            /\ UNCHANGED current_response
       ELSE /\ current_response' = NoResponse
            /\ pc' = AfterCall(site)
            /\ UNCHANGED << result, exc >>
    /\ UNCHANGED << tools, tool_manager, messages, tool_use_round, blk,
                    tool_results, site, attempt, last_exception, delays, tries,
                    errors, requests, responses, executed, faults >>
    /\ UNCHANGED << rag_vars, threads, max_retries >>

(***************************************************************************)
(* generate_response after the first call.                                 *)
(***************************************************************************)
\* if response.stop_reason == "tool_use" and tool_manager: ... else return text
HandleFirstResponse ==
    /\ pc = "first_response"
    /\ IF current_response = NoResponse
       THEN \* response is None: response.stop_reason
            /\ Raise(PyError("AttributeError"))
            /\ UNCHANGED tool_use_round
       ELSE IF current_response.stop_reason = "tool_use" /\ tool_manager
       THEN \* messages = base_params["messages"].copy(); tool_use_round = 0
            /\ pc' = "loop_head"
            /\ tool_use_round' = 0
            /\ UNCHANGED << result, exc >>
       ELSE /\ ReturnText(current_response)
            /\ UNCHANGED tool_use_round
    /\ UNCHANGED << tools, tool_manager, messages, current_response, blk,
                    tool_results, site, attempt, last_exception, delays,
                    tries, errors, requests, responses, executed, faults >>
    /\ UNCHANGED << rag_vars, threads, max_retries >>

(***************************************************************************)
(* _execute_tool_loop.                                                     *)
(***************************************************************************)
\* the while test and the head of its body
LoopHead ==
    /\ pc = "loop_head"
    /\ IF LoopContinues(tool_use_round)
       THEN IF current_response.stop_reason # "tool_use"
            THEN /\ ReturnText(current_response)
                 /\ UNCHANGED << messages, tool_results, blk >>
            ELSE /\ messages' = Append(messages,
                                       AssistantMessage(current_response.content))
                 /\ tool_results' = << >>
                 /\ blk' = 1
                 /\ pc' = "tool_loop"
                 /\ UNCHANGED << result, exc >>
       ELSE /\ pc' = "after_loop"
            /\ UNCHANGED << messages, tool_results, blk, result, exc >>
    /\ UNCHANGED << tools, tool_manager, current_response, tool_use_round,
                    site, attempt, last_exception, delays, tries, errors, requests,
                    responses, executed, faults >>
    /\ UNCHANGED << rag_vars, threads, max_retries >>

\* max rounds reached: if current_response.stop_reason == "tool_use"
AfterLoop ==
    /\ pc = "after_loop"
    /\ IF current_response.stop_reason = "tool_use"
       THEN /\ messages' = Append(messages,
                                  AssistantMessage(current_response.content))
            /\ tool_results' = << >>
            /\ blk' = 1
            /\ pc' = "final_tool_loop"
            /\ UNCHANGED << result, exc >>
       ELSE /\ ReturnText(current_response)
            /\ UNCHANGED << messages, tool_results, blk >>
    /\ UNCHANGED << tools, tool_manager, current_response, tool_use_round,
                    site, attempt, last_exception, delays, tries, errors, requests,
                    responses, executed, faults >>
    /\ UNCHANGED << rag_vars, threads, max_retries >>

InToolLoop == pc \in {"tool_loop", "final_tool_loop"}
content_block == current_response.content[blk]

\* for content_block in ...: a block whose type is not "tool_use"
SkipBlock ==
    /\ InToolLoop
    /\ blk <= Len(current_response.content)
    /\ content_block.type # "tool_use"
    /\ blk' = blk + 1
    /\ UNCHANGED << pc, tools, tool_manager, messages, current_response,
                    tool_use_round, tool_results, site, attempt,
                    last_exception, delays, tries, errors, requests, responses,
                    executed, faults, result, exc >>
    /\ UNCHANGED << rag_vars, threads, max_retries >>

\* tool_manager.execute_tool(...) returns
ToolReturns ==
    /\ InToolLoop
    /\ blk <= Len(current_response.content)
    /\ content_block.type = "tool_use"
    /\ tool_results' = Append(tool_results, ToolResult(content_block, ToolOutput))
    /\ executed' = Append(executed, content_block.id)
    /\ faults' = faults
    /\ blk' = blk + 1
    /\ UNCHANGED << pc, tools, tool_manager, messages, current_response,
                    tool_use_round, site, attempt, last_exception, delays,
                    tries, errors, requests, responses, result, exc >>
    /\ UNCHANGED << rag_vars, threads, max_retries >>

\* mutant: no try/except around execute_tool, the exception propagates
ToolRaisesPropagates ==
    /\ InToolLoop
    /\ blk <= Len(current_response.content)
    /\ content_block.type = "tool_use"
    /\ \E msg \in ToolFaults : faults' = Append(faults, << content_block.id, msg >>)
    /\ executed' = Append(executed, content_block.id)
    /\ Raise(PyError("Exception"))
    /\ UNCHANGED << tools, tool_manager, messages, current_response,
                    tool_use_round, blk, tool_results, site, attempt,
                    last_exception, delays, tries, errors, requests, responses >>
    /\ UNCHANGED << rag_vars, threads, max_retries >>

\* tool_manager.execute_tool(...) raises: except Exception as e
ToolRaises ==
    /\ InToolLoop
    /\ blk <= Len(current_response.content)
    /\ content_block.type = "tool_use"
    /\ \E msg \in ToolFaults :
          /\ tool_results' = Append(tool_results,
                                    ToolResult(content_block, ToolErrorText(msg)))
          /\ faults' = Append(faults, << content_block.id, msg >>)
    /\ executed' = Append(executed, content_block.id)
    /\ blk' = blk + 1
    /\ UNCHANGED << pc, tools, tool_manager, messages, current_response,
                    tool_use_round, site, attempt, last_exception, delays,
                    tries, errors, requests, responses, result, exc >>
    /\ UNCHANGED << rag_vars, threads, max_retries >>

\* mutant: the next call is issued as soon as one block has been processed
FinishRoundAfterFirstBlock ==
    /\ pc = "tool_loop"
    /\ blk > 1
    /\ messages' = WithToolResults(messages, tool_results)
    /\ tool_use_round' = tool_use_round + 1
    /\ IF tools
       THEN /\ BeginCall("loop", messages', TRUE, base_params.system)
            /\ UNCHANGED << result, exc >>
       ELSE /\ Raise(PyError("KeyError"))
            /\ UNCHANGED << site, attempt, last_exception, delays, tries, errors, requests >>
    /\ UNCHANGED << tools, tool_manager, current_response, blk, tool_results,
                    responses, executed, faults >>
    /\ UNCHANGED << rag_vars, threads, max_retries >>

\* end of a round inside the while loop: append results, count, call again
FinishRound ==
    /\ pc = "tool_loop"
    /\ blk > Len(current_response.content)
    /\ messages' = WithToolResults(messages, tool_results)
    /\ tool_use_round' = tool_use_round + 1
    /\ IF tools
       THEN /\ BeginCall("loop", messages', TRUE, base_params.system)
            /\ UNCHANGED << result, exc >>
       ELSE \* base_params["tools"] of a request built without tools
            /\ Raise(PyError("KeyError"))
            /\ UNCHANGED << site, attempt, last_exception, delays, tries, errors, requests >>
    /\ UNCHANGED << tools, tool_manager, current_response, blk, tool_results,
                    responses, executed, faults >>
    /\ UNCHANGED << rag_vars, threads, max_retries >>

\* mutant: the round after the loop counts as a round too
FinishOverflowCounts ==
    /\ pc = "final_tool_loop"
    /\ blk > Len(current_response.content)
    /\ messages' = WithToolResults(messages, tool_results)
    /\ tool_use_round' = tool_use_round + 1
    /\ BeginCall("final", messages', FALSE, base_params.system)
    /\ UNCHANGED << tools, tool_manager, current_response, blk,
                    tool_results, responses, executed, faults, result, exc >>
    /\ UNCHANGED << rag_vars, threads, max_retries >>

\* mutant: the call after the overflow round still offers the tools
FinishOverflowKeepsTools ==
    /\ pc = "final_tool_loop"
    /\ blk > Len(current_response.content)
    /\ messages' = WithToolResults(messages, tool_results)
    /\ BeginCall("final", messages', TRUE, base_params.system)
    /\ UNCHANGED << tools, tool_manager, current_response, tool_use_round, blk,
                    tool_results, responses, executed, faults, result, exc >>
    /\ UNCHANGED << rag_vars, threads, max_retries >>

\* end of the round after the loop: append results, final call WITHOUT tools
FinishOverflow ==
    /\ pc = "final_tool_loop"
    /\ blk > Len(current_response.content)
    /\ messages' = WithToolResults(messages, tool_results)
    /\ BeginCall("final", messages', FALSE, base_params.system)
    /\ UNCHANGED << tools, tool_manager, current_response, tool_use_round, blk,
                    tool_results, responses, executed, faults, result, exc >>
    /\ UNCHANGED << rag_vars, threads, max_retries >>

\* mutant: the text that came with the first tool request is the answer
ReturnFinalEarlierText ==
    /\ pc = "return"
    /\ ReturnText(IF HasFirstText(responses[1]) THEN responses[1]
                  ELSE current_response)
    /\ UNCHANGED << tools, tool_manager, messages, current_response,
                    tool_use_round, blk, tool_results, site, attempt,
                    last_exception, delays, tries, errors, requests, responses,
                    executed, faults >>
    /\ UNCHANGED << rag_vars, threads, max_retries >>

\* return current_response.content[0].text after the final call
ReturnFinal ==
    /\ pc = "return"
    /\ ReturnText(current_response)
    /\ UNCHANGED << tools, tool_manager, messages, current_response,
                    tool_use_round, blk, tool_results, site, attempt,
                    last_exception, delays, tries, errors, requests, responses,
                    executed, faults >>
    /\ UNCHANGED << rag_vars, threads, max_retries >>

Next ==
    \/ generate_response
    \/ ApiSuccess
    \/ ApiRetryableError
    \/ ApiFatalError
    \/ HandleFirstResponse
    \/ LoopHead
    \/ AfterLoop
    \/ SkipBlock
    \/ ToolReturns
    \/ ToolRaises
    \/ FinishRound
    \/ FinishOverflow
    \/ ReturnFinal

Spec == Init /\ [][Next]_vars

\* the interpreter always takes the next step of a running call
FairSpec == Spec /\ WF_vars(Next)

Done == pc \in {"returned", "raised"}

(***************************************************************************)
(* The retrieval side: VectorStore (resolution, filter, ranked search),    *)
(* CourseSearchTool (rendering, source records) and ToolManager (dispatch  *)
(* by name, source accumulator).  An optional value is << >> when absent   *)
(* and << v >> when present.                                               *)
(***************************************************************************)
None == << >>
Some(v) == << v >>

SearchToolName == "search_course_content"
UnknownToolName == "nonexistent_tool"
CourseTitles == {"MCP"}
UnknownCourse == "NonExistentCourse12345"
\* a lesson number no chunk carries
UnknownLesson == 9999
\* VectorStore.max_results
MaxResults == 2

Chunk(text, title, lesson) ==
    [text |-> text, course_title |-> title, lesson_number |-> lesson]

\* the chunk index of the fully loaded store, in ascending distance
Chunks ==
    << Chunk("chunk a", "MCP", Some(0)),
       Chunk("chunk b", "MCP", Some(1)),
       Chunk("chunk c", "MCP", None) >>

\* the chunks of the courses that are in the catalog
Content(titles) == SelectSeq(Chunks, LAMBDA c : c.course_title \in titles)

\* the closest canonical title: there is no distance threshold
Closest(titles, name) == CHOOSE title \in titles : TRUE

\* VectorStore._resolve_course_name
ResolveCourse(titles, name) ==
    IF name \in titles THEN Some(name)
    ELSE IF titles # {} THEN Some(Closest(titles, name)) ELSE None

\* the filter expressions _build_filter can return
NoFilter == [op |-> "None"]
CourseFilter(title) == [op |-> "course_title", course_title |-> title]
LessonFilter(n) == [op |-> "lesson_number", lesson_number |-> n]
AndFilter(title, n) == [op |-> "$and", course_title |-> title, lesson_number |-> n]

\* mutant: the lesson number is tested for truth, so lesson 0 counts as absent
build_filterTruthy(course, lesson) ==
    IF course = None /\ (lesson = None \/ lesson = Some(0)) THEN NoFilter
    ELSE IF course # None /\ lesson # None /\ lesson # Some(0)
    THEN AndFilter(course[1], lesson[1])
    ELSE IF course # None THEN CourseFilter(course[1])
    ELSE LessonFilter(lesson[1])

\* VectorStore._build_filter(course_title, lesson_number)
build_filter(course, lesson) ==
    IF course = None /\ lesson = None THEN NoFilter
    ELSE IF course # None /\ lesson # None THEN AndFilter(course[1], lesson[1])
    ELSE IF course # None THEN CourseFilter(course[1])
    ELSE LessonFilter(lesson[1])

\* the index's evaluation of a filter expression on a chunk's metadata
Matches(c, filter) ==
    CASE filter.op = "None" -> TRUE
      [] filter.op = "course_title" -> c.course_title = filter.course_title
      [] filter.op = "lesson_number" -> c.lesson_number = Some(filter.lesson_number)
      [] filter.op = "$and" -> /\ c.course_title = filter.course_title
                               /\ c.lesson_number = Some(filter.lesson_number)

Take(s, n) == SubSeq(s, 1, Min(Len(s), n))

\* SearchResults(documents, metadata, error)
SearchResults(hits, error) ==
    [documents |-> [i \in 1..Len(hits) |-> hits[i].text],
     metadata |-> [i \in 1..Len(hits) |->
                     [course_title |-> hits[i].course_title,
                      lesson_number |-> hits[i].lesson_number]],
     error |-> error]

NoCourseFound(name) == "No course found matching '" \o name \o "'"

\* VectorStore.search(query, course_name, lesson_number)
search(titles, course_name, lesson_number) ==
    LET title == IF course_name = None THEN None
                 ELSE ResolveCourse(titles, course_name[1])
    IN  IF course_name # None /\ title = None
        THEN SearchResults(<< >>, Some(NoCourseFound(course_name[1])))
        ELSE SearchResults(
                 Take(SelectSeq(Content(titles),
                                LAMBDA c : Matches(c, build_filter(title, lesson_number))),
                      MaxResults),
                 None)

\* " - Lesson <n>" when the hit carries a lesson number
LessonSuffix(meta) ==
    IF meta.lesson_number = None THEN ""
    ELSE " - Lesson " \o ToString(meta.lesson_number[1])

\* "[<course title> - Lesson <n>]\n<document text>"
FormatHit(doc, meta) ==
    "[" \o meta.course_title \o LessonSuffix(meta) \o "]\n" \o doc

RECURSIVE JoinBlocks(_)
\* "\n\n".join(formatted)
JoinBlocks(blocks) ==
    IF Len(blocks) = 1 THEN blocks[1]
    ELSE blocks[1] \o "\n\n" \o JoinBlocks(Tail(blocks))

\* the lesson link when the hit has a lesson, else the course link
SourceUrl(meta) ==
    IF meta.lesson_number = None THEN "course-link:" \o meta.course_title
    ELSE "lesson-link:" \o meta.course_title \o "/" \o ToString(meta.lesson_number[1])

\* one source record {"text": ..., "url": ...} per hit
SourceRecord(meta) ==
    [text |-> meta.course_title \o LessonSuffix(meta), url |-> SourceUrl(meta)]

SourceRecords(results) ==
    [i \in 1..Len(results.metadata) |-> SourceRecord(results.metadata[i])]

\* " in course '<name>'" / " in lesson <n>" of the empty-result message
FilterInfo(course_name, lesson_number) ==
    (IF course_name = None THEN "" ELSE " in course '" \o course_name[1] \o "'") \o
    (IF lesson_number = None THEN "" ELSE " in lesson " \o ToString(lesson_number[1]))

NoContentFound(course_name, lesson_number) ==
    "No relevant content found" \o FilterInfo(course_name, lesson_number) \o "."

\* what one tool execution gives: the returned string and the records emitted
Outcome(text, emitted) == [text |-> text, sources |-> emitted]

\* CourseSearchTool.execute(query, course_name, lesson_number)
SearchToolExecute(titles, input) ==
    LET results == search(titles, input.course_name, input.lesson_number) IN
    IF results.error # None THEN Outcome(results.error[1], << >>)
    ELSE IF results.documents = << >>
    THEN Outcome(NoContentFound(input.course_name, input.lesson_number), << >>)
    ELSE Outcome(JoinBlocks([i \in 1..Len(results.documents) |->
                               FormatHit(results.documents[i], results.metadata[i])]),
                 SourceRecords(results))

ToolNotFound(name) == "Tool '" \o name \o "' not found"

\* mutant: an unknown name is handed to the search tool
ExecuteToolAnyName(registered, titles, name, input) ==
    SearchToolExecute(titles, input)

\* ToolManager.execute_tool(tool_name, **kwargs)
ExecuteTool(registered, titles, name, input) ==
    IF name \notin registered THEN Outcome(ToolNotFound(name), << >>)
    ELSE SearchToolExecute(titles, input)

\* mutant: each execution replaces the records of the one before
AccumulateLastOnly(acc, emitted) == emitted

\* the accumulator after an execution that emitted `emitted`
Accumulate(acc, emitted) == acc \o emitted

\* the keyword arguments of a search: optional course_name and lesson_number
Input(course_name, lesson_number) ==
    [course_name |-> course_name, lesson_number |-> lesson_number]

\* the arguments the callers of the tool manager pass
Inputs ==
    {Input(c, l) : c \in {None, Some("MCP"), Some(UnknownCourse)},
                   l \in {None, Some(0), Some(UnknownLesson)}}

\* the arguments the modelled service puts in its tool-use blocks
ModelInputs == {Input(None, Some(0)), Input(Some(UnknownCourse), None)}

RequestableNames == {SearchToolName, UnknownToolName}

SearchBlock(i, n, input) ==
    [type |-> "tool_use", id |-> i, name |-> n, input |-> input]

\* the blocks the service may return at position p of response n
RagBlocksAt(n, p) ==
    {TextBlock(<<n, p>>)}
    \cup {SearchBlock(<<n, p>>, SearchToolName, input) : input \in ModelInputs}
    \cup {SearchBlock(<<n, p>>, UnknownToolName, Input(None, None))}

RECURSIVE RagContentsOfLen(_, _)
RagContentsOfLen(n, len) ==
    IF len = 0 THEN {<< >>}
    ELSE {Append(c, b) : c \in RagContentsOfLen(n, len - 1), b \in RagBlocksAt(n, len)}

RagContents(n, room) ==
    UNION {RagContentsOfLen(n, len) : len \in 0..Min(MaxBlocks, room)}

(***************************************************************************)
(* The tool manager used directly, as its callers and tests use it, and a  *)
(* generate_response run that is handed the real tool manager.             *)
(***************************************************************************)
\* most records the accumulator holds when a direct execute_tool is made
MaxSources == 1
\* most content blocks the modelled service returns over one such run
MaxRagBlocks == 3

AtRest == pc \in {"idle", "returned", "raised"}

\* ToolManager.get_last_sources()
GetLastSources(registered, acc) == IF registered = {} THEN << >> ELSE acc

RagInit ==
    /\ NoRun
    /\ manager_tools \in {{}, {SearchToolName}}
    /\ last_sources = << >>
    /\ catalog \in {{}, CourseTitles}
    /\ last_call = NoCall
    /\ threads = NoThreads
    /\ max_retries = 3

\* tool.get_tool_definition(): of the search tool, and one without a name
ToolDefinitions == {[name |-> Some(SearchToolName)], [name |-> None]}

\* what a registration gives: the tools afterwards and the exception raised
Registration(registered, raised) == [tools |-> registered, raised |-> raised]

\* mutant: a definition without a name is stored under the empty name
RegisterToolUnchecked(registered, definition) ==
    Registration(registered \cup
                     {IF definition.name = None THEN "" ELSE definition.name[1]},
                 "None")

\* ToolManager.register_tool(tool)
RegisterTool(registered, definition) ==
    IF definition.name = None
    THEN Registration(registered, "ValueError")
    ELSE Registration(registered \cup {definition.name[1]}, "None")

\* ToolManager.get_tool_definitions()
GetToolDefinitions(registered) == {[name |-> Some(n)] : n \in registered}

\* manager.register_tool(tool)
register_tool ==
    /\ pc = "idle"
    /\ \E definition \in ToolDefinitions :
          LET r == RegisterTool(manager_tools, definition) IN
          /\ manager_tools' = r.tools
          /\ last_call' = [op |-> "register_tool", definition |-> definition,
                           raised |-> r.raised]
    /\ UNCHANGED << last_sources, catalog >>
    /\ UNCHANGED << run_vars, threads, max_retries >>

\* manager.get_tool_definitions()
get_tool_definitions ==
    /\ pc = "idle"
    /\ last_call' = [op |-> "get_tool_definitions",
                     value |-> GetToolDefinitions(manager_tools)]
    /\ UNCHANGED << manager_tools, last_sources, catalog >>
    /\ UNCHANGED << run_vars, threads, max_retries >>

\* manager.execute_tool(name, query=..., course_name=..., lesson_number=...)
execute_tool ==
    /\ pc = "idle"
    /\ Len(last_sources) < MaxSources
    /\ \E name \in RequestableNames, input \in Inputs :
          LET out == ExecuteTool(manager_tools, catalog, name, input) IN
          /\ last_sources' = Accumulate(last_sources, out.sources)
          /\ last_call' = [op |-> "execute_tool", name |-> name,
                           input |-> input, value |-> out.text]
    /\ UNCHANGED << manager_tools, catalog >>
    /\ UNCHANGED << run_vars, threads, max_retries >>

\* manager.get_last_sources()
get_last_sources ==
    /\ AtRest
    /\ last_call' = [op |-> "get_last_sources",
                     value |-> GetLastSources(manager_tools, last_sources)]
    /\ UNCHANGED << manager_tools, last_sources, catalog >>
    /\ UNCHANGED << run_vars, threads, max_retries >>

\* mutant: reset_sources leaves the accumulated records in place
ResetSourcesKeepsRecords ==
    /\ AtRest
    /\ last_call' = [op |-> "reset_sources"]
    /\ UNCHANGED << manager_tools, last_sources, catalog >>
    /\ UNCHANGED << run_vars, threads, max_retries >>

\* manager.reset_sources()
reset_sources ==
    /\ AtRest
    /\ last_sources' = << >>
    /\ last_call' = [op |-> "reset_sources"]
    /\ UNCHANGED << manager_tools, catalog >>
    /\ UNCHANGED << run_vars, threads, max_retries >>

\* generate_response(query, tools=tool_manager.get_tool_definitions(),
\*                   tool_manager=tool_manager)
StartQuery ==
    /\ pc = "idle"
    /\ tools' = (GetToolDefinitions(manager_tools) # {})
    /\ tool_manager' = TRUE
    /\ messages' = << UserMessage(Query) >>
    /\ BeginCall("first", messages', tools', SystemContent(NoHistory))
    /\ last_call' = NoCall
    /\ UNCHANGED << current_response, tool_use_round, blk, tool_results,
                    responses, executed, faults, result, exc >>
    /\ UNCHANGED << manager_tools, last_sources, catalog, threads, max_retries >>

\* client.messages.create returns a response whose tool-use blocks carry input
ModelResponds ==
    /\ pc = "api"
    /\ \E stop \in StopReasons,
          content \in RagContents(Len(requests), MaxRagBlocks - BlocksIn(responses)) :
          /\ current_response' = Response(stop, content)
          /\ responses' = Append(responses, Response(stop, content))
    /\ pc' = AfterCall(site)
    /\ UNCHANGED << tools, tool_manager, messages, tool_use_round, blk,
                    tool_results, site, attempt, last_exception, delays, tries, errors,
                    requests, executed, faults, result, exc >>
    /\ UNCHANGED << rag_vars, threads, max_retries >>

\* tool_manager.execute_tool(content_block.name, **content_block.input)
ToolDispatch ==
    /\ InToolLoop
    /\ blk <= Len(current_response.content)
    /\ content_block.type = "tool_use"
    /\ LET out == ExecuteTool(manager_tools, catalog,
                              content_block.name, content_block.input) IN
          /\ tool_results' = Append(tool_results, ToolResult(content_block, out.text))
          /\ last_sources' = Accumulate(last_sources, out.sources)
    /\ executed' = Append(executed, content_block.id)
    /\ blk' = blk + 1
    /\ UNCHANGED << pc, tools, tool_manager, messages, current_response,
                    tool_use_round, site, attempt, last_exception, delays,
                    tries, errors, requests, responses, faults, result, exc >>
    /\ UNCHANGED << manager_tools, catalog, last_call, threads, max_retries >>

RagNext ==
    \/ register_tool
    \/ get_tool_definitions
    \/ execute_tool
    \/ get_last_sources
    \/ reset_sources
    \/ StartQuery
    \/ ModelResponds
    \/ HandleFirstResponse
    \/ LoopHead
    \/ AfterLoop
    \/ SkipBlock
    \/ ToolDispatch
    \/ FinishRound
    \/ FinishOverflow
    \/ ReturnFinal

RagSpec == RagInit /\ [][RagNext]_vars

(***************************************************************************)
(* A host that serves two overlapping queries with one AIGenerator and one *)
(* ToolManager.  Each query runs RAGSystem.query: generate_response with   *)
(* the manager's tools, then get_last_sources, then reset_sources.  The    *)
(* service answers every call; its failures are the subject of Spec.       *)
(***************************************************************************)
\* query r's text
QueryOf(r) == "query " \o ToString(r)

\* the search the model asks for on behalf of query r: lesson r - 1
HostInput(r) == Input(None, Some(r - 1))

\* the n-th response to query r: a text answer or, when the call carried
\* tools, one search request
HostResponses(r, n, withTools) ==
    {Response("end_turn", << TextBlock(<< r, n >>) >>)} \cup
    (IF withTools
     THEN {Response("tool_use",
                    << SearchBlock(<< r, n >>, SearchToolName, HostInput(r)) >>)}
     ELSE {})

\* mutant: messages and tool_use_round are kept on the shared instance
OwnShared(r, frame) ==
    [t \in Threads |->
        IF t = r THEN frame
        ELSE [threads[t] EXCEPT !.messages = frame.messages,
                                !.tool_use_round = frame.tool_use_round]]

\* the locals of run r are rebound; no other run's locals are touched
Own(r, frame) == [threads EXCEPT ![r] = frame]

\* self._make_api_call_with_retry(params) is entered by a run
HostCall(f, s, withTools, system) ==
    [f EXCEPT !.pc = "api", !.site = s,
              !.requests = Append(@, Request(f.messages, withTools, system))]

\* query 1 opens a session, query 2 continues one
HostHistory(r) == IF r = 1 THEN NoHistory ELSE SessionHistory

\* return current_response.content[0].text
HostReturn(f) == [f EXCEPT !.pc = "returned", !.result = << f.current_response.content[1].text >>]

\* messages.append(assistant turn); tool_results = []
HostBeginRound(f) ==
    [f EXCEPT !.pc = "tools", !.blk = 1, !.tool_results = << >>,
              !.messages = Append(@, AssistantMessage(f.current_response.content))]

\* RAGSystem.query(query) calls generate_response(query, tools, tool_manager)
HostQuery(r) ==
    LET f == threads[r] IN
    /\ f.pc = "idle"
    /\ threads' = Own(r, HostCall([f EXCEPT !.messages = << UserMessage(QueryOf(r)) >>],
                                  "first", GetToolDefinitions(manager_tools) # {},
                                  SystemContent(HostHistory(r))))
    /\ UNCHANGED << run_vars, rag_vars, max_retries >>

\* the call of run r returns; the code up to the next call or tool execution
HostResponds(r) ==
    LET f == threads[r] IN
    /\ f.pc = "api"
    /\ \E response \in HostResponses(r, Len(f.requests),
                                     f.requests[Len(f.requests)].tools) :
          LET g == [f EXCEPT !.current_response = response] IN
          threads' = Own(r,
              CASE f.site = "first" ->
                     IF response.stop_reason = "tool_use"
                     THEN [g EXCEPT !.pc = "loop_head", !.tool_use_round = 0]
                     ELSE HostReturn(g)
                [] f.site = "loop" -> [g EXCEPT !.pc = "loop_head"]
                [] f.site = "final" -> HostReturn(g))
    /\ UNCHANGED << run_vars, rag_vars, max_retries >>

\* while tool_use_round < MAX_TOOL_ROUNDS, and the test after the loop
HostLoopHead(r) ==
    LET f == threads[r] IN
    /\ f.pc = "loop_head"
    /\ threads' = Own(r, IF f.current_response.stop_reason # "tool_use"
                         THEN HostReturn(f) ELSE HostBeginRound(f))
    /\ UNCHANGED << run_vars, rag_vars, max_retries >>

\* tool_manager.execute_tool(content_block.name, **content_block.input)
HostToolDispatch(r) ==
    LET f == threads[r]
        block == f.current_response.content[f.blk]
        out == ExecuteTool(manager_tools, catalog, block.name, block.input)
    IN
    /\ f.pc = "tools"
    /\ f.blk <= Len(f.current_response.content)
    /\ threads' = Own(r, [f EXCEPT !.blk = @ + 1,
                                   !.tool_results = Append(@, ToolResult(block, out.text)),
                                   !.emitted = @ \o out.sources])
    /\ last_sources' = Accumulate(last_sources, out.sources)
    /\ UNCHANGED << run_vars, manager_tools, catalog, last_call, max_retries >>

\* the round's results are submitted and the next call is issued
HostFinishRound(r) ==
    LET f == threads[r]
        g == [f EXCEPT !.messages = WithToolResults(@, f.tool_results)]
    IN
    /\ f.pc = "tools"
    /\ f.blk > Len(f.current_response.content)
    /\ threads' = Own(r, IF LoopContinues(f.tool_use_round)
                         THEN HostCall([g EXCEPT !.tool_use_round = @ + 1], "loop", TRUE,
                                       f.requests[1].system)
                         ELSE HostCall(g, "final", FALSE, f.requests[1].system))
    /\ UNCHANGED << run_vars, rag_vars, max_retries >>

\* mutant: a query is reported the records of its own tool calls only
HostGetOwnSources(r) ==
    LET f == threads[r] IN
    /\ f.pc = "returned"
    /\ threads' = Own(r, [f EXCEPT !.pc = "read", !.sources = f.emitted])
    /\ UNCHANGED << run_vars, rag_vars, max_retries >>

\* sources = self.tool_manager.get_last_sources()
HostGetSources(r) ==
    LET f == threads[r] IN
    /\ f.pc = "returned"
    /\ threads' = Own(r, [f EXCEPT !.pc = "read",
                                   !.sources = GetLastSources(manager_tools, last_sources)])
    /\ UNCHANGED << run_vars, rag_vars, max_retries >>

\* self.tool_manager.reset_sources()
HostResetSources(r) ==
    LET f == threads[r] IN
    /\ f.pc = "read"
    /\ threads' = Own(r, [f EXCEPT !.pc = "done"])
    /\ last_sources' = << >>
    /\ UNCHANGED << run_vars, manager_tools, catalog, last_call, max_retries >>

HostInit ==
    /\ NoRun
    /\ manager_tools = {SearchToolName}
    /\ last_sources = << >>
    /\ catalog = CourseTitles
    /\ last_call = NoCall
    /\ threads = NoThreads
    /\ max_retries = 3

HostNext ==
    \E r \in Threads :
        \/ HostQuery(r)
        \/ HostResponds(r)
        \/ HostLoopHead(r)
        \/ HostToolDispatch(r)
        \/ HostFinishRound(r)
        \/ HostGetSources(r)
        \/ HostResetSources(r)

HostSpec == HostInit /\ [][HostNext]_vars

(***************************************************************************)
(* The first model call of a run on a generator whose max_retries has been *)
(* set by its owner, from no attempt at all up to MaxConfiguredRetries.    *)
(***************************************************************************)
MaxConfiguredRetries == 3

CallInit ==
    /\ NoRun
    /\ manager_tools = {}
    /\ last_sources = << >>
    /\ catalog = {}
    /\ last_call = NoCall
    /\ threads = NoThreads
    /\ max_retries \in 0..MaxConfiguredRetries

CallNext ==
    \/ generate_response
    \/ ApiSuccess
    \/ ApiRetryableError
    \/ ApiFatalError
    \/ RetriesExhausted
    \/ HandleFirstResponse

CallSpec == CallInit /\ [][CallNext]_vars

(***************************************************************************)
(* Vocabulary of the properties.                                           *)
(***************************************************************************)
RECURSIVE ToolIds(_)
\* the ids of the tool-use blocks of a content list, in block order
ToolIds(content) ==
    IF content = << >> THEN << >>
    ELSE IF Head(content).type = "tool_use"
         THEN << Head(content).id >> \o ToolIds(Tail(content))
         ELSE ToolIds(Tail(content))

RECURSIVE RequestedIds(_, _)
\* the tool-use ids of the first k responses, in response and block order
RequestedIds(rs, k) ==
    IF k = 0 THEN << >> ELSE RequestedIds(rs, k - 1) \o ToolIds(rs[k].content)

\* the first k responses all carry the tool-requested stop reason
RequestsTools(k) ==
    /\ Len(responses) >= k
    /\ \A i \in 1..k : responses[i].stop_reason = "tool_use"

LastResponse == responses[Len(responses)]
ModelCalls == Len(requests)
Orchestrated == tools /\ tool_manager

(***************************************************************************)
(* C1: when the model keeps requesting tools beyond MAX_TOOL_ROUNDS, the   *)
(* tool calls of the overflowing (MAX_TOOL_ROUNDS+1)-th response are       *)
(* executed, exactly one further call is issued and it carries neither     *)
(* tools nor tool_choice, the run never ends before that call, it makes    *)
(* MAX_TOOL_ROUNDS + 2 calls in all, and what it returns is the text of    *)
(* the last response.                                                      *)
(***************************************************************************)
C1_OverflowForcesFinalCall ==
    (Orchestrated /\ RequestsTools(MAX_TOOL_ROUNDS + 1)) =>
        /\ ModelCalls <= MAX_TOOL_ROUNDS + 2
        /\ \A i \in 1..ModelCalls :
              /\ requests[i].tools = (i <= MAX_TOOL_ROUNDS + 1)
              /\ requests[i].tool_choice = (i <= MAX_TOOL_ROUNDS + 1)
        /\ ModelCalls = MAX_TOOL_ROUNDS + 2 =>
              executed = RequestedIds(responses, MAX_TOOL_ROUNDS + 1)
        /\ Done => ModelCalls = MAX_TOOL_ROUNDS + 2
        /\ pc = "returned" =>
              /\ Len(responses) = MAX_TOOL_ROUNDS + 2
              /\ LastResponse.content[1].type = "text"
              /\ result = LastResponse.content[1].text
        /\ (Done /\ Len(responses) = MAX_TOOL_ROUNDS + 2
                 /\ HasFirstText(LastResponse)) => pc = "returned"

C1_Witness ==
    /\ Orchestrated
    /\ RequestsTools(MAX_TOOL_ROUNDS + 2)
    /\ pc = "returned"
    /\ ModelCalls = MAX_TOOL_ROUNDS + 2
    /\ Len(ToolIds(responses[MAX_TOOL_ROUNDS + 1].content)) = 2

(***************************************************************************)
(* C2: every run terminates, by returning or by raising, and issues at     *)
(* most MAX_TOOL_ROUNDS + 2 logical model calls whatever the stop reasons  *)
(* and the tool outcomes are.                                              *)
(***************************************************************************)
C2_TerminatesWithinCallBudget ==
    /\ <>Done
    /\ [](ModelCalls <= MAX_TOOL_ROUNDS + 2)

C2_Witness ==
    /\ pc = "raised"
    /\ ModelCalls = MAX_TOOL_ROUNDS + 2
    /\ Len(responses) = MAX_TOOL_ROUNDS + 2
    /\ LastResponse.stop_reason = "tool_use"

(***************************************************************************)
(* C3: when the first k responses (1 <= k <= MAX_TOOL_ROUNDS) request      *)
(* tools and the next one is terminal, exactly k+1 calls occur, all with   *)
(* tools, the tool calls of the k responses are executed exactly once each *)
(* in order, and the run returns the text of response k+1.                 *)
(***************************************************************************)
C3_KRoundsThenAnswer ==
    \A k \in 1..MAX_TOOL_ROUNDS :
        (/\ Orchestrated
         /\ RequestsTools(k)
         /\ Len(responses) >= k + 1
         /\ responses[k + 1].stop_reason # "tool_use") =>
            /\ ModelCalls = k + 1
            /\ Len(responses) = k + 1
            /\ \A i \in 1..ModelCalls : requests[i].tools
            /\ executed = RequestedIds(responses, k)
            /\ pc \in {"loop_head", "after_loop", "returned", "raised"}
            /\ pc = "returned" => result = responses[k + 1].content[1].text
            /\ (Done /\ HasFirstText(responses[k + 1])) => pc = "returned"

C3_Witness ==
    /\ Orchestrated
    /\ RequestsTools(MAX_TOOL_ROUNDS)
    /\ Len(responses) = MAX_TOOL_ROUNDS + 1
    /\ LastResponse.stop_reason = "end_turn"
    /\ pc = "returned"
    /\ Len(executed) >= MAX_TOOL_ROUNDS

(***************************************************************************)
(* C4: when the first response is terminal, exactly one model call occurs, *)
(* no tool is executed, no turn is appended to the conversation and the    *)
(* returned text is the text of the first block of that response.          *)
(***************************************************************************)
C4_DirectAnswer ==
    (Len(responses) >= 1 /\ responses[1].stop_reason # "tool_use") =>
        /\ ModelCalls = 1
        /\ Len(responses) = 1
        /\ executed = << >>
        /\ messages = << UserMessage(Query) >>
        /\ pc = "returned" => result = responses[1].content[1].text
        /\ (Done /\ HasFirstText(responses[1])) => pc = "returned"

C4_Witness ==
    /\ Len(responses) = 1
    /\ responses[1].stop_reason = "end_turn"
    /\ Len(responses[1].content) = 2
    /\ pc = "returned"
    /\ tool_manager

(***************************************************************************)
(* C5: in every round in which tools are executed, the overflow round      *)
(* included, the tool-result turn holds exactly one result per tool-use    *)
(* block of the response and none for its text blocks, each result carries *)
(* the id of its request, and the results are in block order.              *)
(***************************************************************************)
ResultIds(results) == [i \in 1..Len(results) |-> results[i].tool_use_id]

IsToolResultTurn(m) ==
    /\ m.role = "user"
    /\ \A i \in 1..Len(m.content) : m.content[i].type = "tool_result"

\* the round of the assistant turn messages[i] has been submitted
RoundSubmitted(i) == i < Len(messages) \/ ~InToolLoop

C5_OneResultPerToolUse ==
    /\ InToolLoop =>
          /\ messages[Len(messages)] = AssistantMessage(current_response.content)
          /\ ResultIds(tool_results) =
                ToolIds(SubSeq(current_response.content, 1, blk - 1))
    /\ \A i \in 1..Len(messages) :
          (messages[i].role = "assistant" /\ RoundSubmitted(i)) =>
             IF ToolIds(messages[i].content) = << >>
             THEN i = Len(messages) \/ messages[i + 1].role = "assistant"
             ELSE /\ i < Len(messages)
                  /\ IsToolResultTurn(messages[i + 1])
                  /\ ResultIds(messages[i + 1].content) =
                        ToolIds(messages[i].content)

C5_Witness ==
    /\ pc = "api"
    /\ site = "final"
    /\ Len(messages) = 2 * (MAX_TOOL_ROUNDS + 1) + 1
    /\ Len(messages[Len(messages)].content) = 2
    /\ Len(messages[Len(messages) - 1].content) = 2

(***************************************************************************)
(* C6: an exception raised by a tool call becomes the text                 *)
(* "Error executing tool: <message>" of that call's result; it does not    *)
(* leave generate_response, the remaining tool calls of the response are   *)
(* still executed and the next model call is still issued.                 *)
(***************************************************************************)
RECURSIVE SubmittedResults(_)
\* the tool results of the tool-result turns of a conversation, in order
SubmittedResults(msgs) ==
    IF Len(msgs) <= 1 THEN << >>
    ELSE SubmittedResults(SubSeq(msgs, 1, Len(msgs) - 1)) \o
         (IF msgs[Len(msgs)].role = "user" THEN msgs[Len(msgs)].content ELSE << >>)

\* every tool result produced so far, submitted or still being collected
AllResults ==
    SubmittedResults(messages) \o (IF InToolLoop THEN tool_results ELSE << >>)

RECURSIVE AssistantContents(_)
\* the assistant turns of a conversation, as responses
AssistantContents(msgs) ==
    IF msgs = << >> THEN << >>
    ELSE (IF Head(msgs).role = "assistant"
          THEN << Response("tool_use", Head(msgs).content) >> ELSE << >>)
         \o AssistantContents(Tail(msgs))

AssistantTurns == AssistantContents(messages)

C6_ToolFaultBecomesResult ==
    /\ Len(AllResults) = Len(executed)
    /\ \A f \in 1..Len(faults) :
          \E j \in 1..Len(AllResults) :
             /\ executed[j] = faults[f][1]
             /\ AllResults[j].tool_use_id = faults[f][1]
             /\ AllResults[j].content = "Error executing tool: boom"
    /\ (faults # << >> /\ ~InToolLoop) =>
          /\ executed = RequestedIds(AssistantTurns, Len(AssistantTurns))
          /\ tools => ModelCalls = Len(AssistantTurns) + 1
          /\ pc = "raised" => exc.type \in ApiErrors \cup
                                 {"IndexError", "AttributeError", "KeyError"}

C6_Witness ==
    /\ pc = "returned"
    /\ Len(faults) = 1
    /\ faults[1][1] = << 1, 1 >>
    /\ executed = << << 1, 1 >>, << 1, 2 >> >>
    /\ ModelCalls = 2

(***************************************************************************)
(* C7: a model call that keeps failing with retryable errors makes exactly *)
(* max_retries (3) attempts and then raises the error of the final         *)
(* attempt; once an attempt succeeds its response is handed to the caller  *)
(* and the call makes no further attempt.                                  *)
(***************************************************************************)
C7_RetryBudget ==
    /\ max_retries = 3
    /\ tries <= max_retries
    /\ (pc = "raised" /\ exc.type \in RetryableErrors) =>
          /\ tries = max_retries
          /\ exc = ApiError(exc.type, ModelCalls, max_retries - 1)
          /\ exc = last_exception
    /\ pc = "api" =>
          /\ Len(responses) = ModelCalls - 1
          /\ tries = attempt
    /\ pc \in {"first_response", "loop_head", "return"} =>
          /\ Len(responses) = ModelCalls
          /\ current_response = LastResponse
    /\ Len(responses) <= ModelCalls

C7_Witness ==
    /\ pc = "raised"
    /\ exc.type = "APITimeoutError"
    /\ exc.attempt = 2
    /\ tries = 3
    /\ ModelCalls = 2

(***************************************************************************)
(* C8: the delay slept before retry attempt k >= 1 is                      *)
(* retry_delay * 2^(k-1), that is 1 then 2; nothing is slept before        *)
(* attempt 0 nor after the final failed attempt, so a call whose attempts  *)
(* all fail sleeps exactly max_retries - 1 times.                          *)
(***************************************************************************)
Schedule(n) == [k \in 1..n |-> retry_delay * 2 ^ (k - 1)]

C8_BackoffSchedule ==
    /\ pc = "api" => delays = Schedule(attempt)
    /\ (pc = "raised" /\ exc.type \in ApiErrors) => delays = Schedule(exc.attempt)
    /\ (pc = "raised" /\ exc.type \in RetryableErrors) =>
          /\ Len(delays) = max_retries - 1
          /\ delays = << 1, 2 >>

C8_Witness ==
    /\ pc = "raised"
    /\ exc.type = "RateLimitError"
    /\ delays = << 1, 2 >>

(***************************************************************************)
(* C9: a non-retryable error (authentication, bad request, unclassified)   *)
(* is raised by the attempt that observed it, with no further attempt and  *)
(* no delay, on attempt 0 as well as after retryable failures; only        *)
(* retryable errors are ever kept for a retry.                             *)
(***************************************************************************)
C9_NonRetryableRaisedAtOnce ==
    /\ last_exception.type \in RetryableErrors \cup {"None"}
    /\ (pc = "raised" /\ exc.type \in NonRetryableErrors) =>
          /\ exc = ApiError(exc.type, ModelCalls, attempt)
          /\ tries = attempt + 1
          /\ Len(delays) = attempt
    /\ pc = "api" => exc = NoError

C9_Witness ==
    /\ pc = "raised"
    /\ exc.type = "BadRequestError"
    /\ exc.attempt = 1
    /\ last_exception.type = "APIConnectionError"
    /\ delays = << 1 >>

(***************************************************************************)
(* C10: a run ends by returning a text answer or by propagating a          *)
(* transport-level exception of a model call whose retries are exhausted   *)
(* or whose error is non-retryable, and in no other way.                   *)
(***************************************************************************)
C10_OnlyTransportFailures ==
    /\ pc = "returned" => (result # NoResult /\ exc = NoError)
    /\ pc = "raised" =>
          /\ result = NoResult
          /\ exc.type \in ApiErrors
          /\ exc.type \in NonRetryableErrors \/ tries = max_retries

(***************************************************************************)
(* C11: within one run tool calls are executed for at most MAX_TOOL_ROUNDS *)
(* model responses, however long the model keeps requesting tools.         *)
(***************************************************************************)
\* the responses (by number) of which a tool call has been executed
ExecutedResponses == {executed[i][1] : i \in 1..Len(executed)}

C11_ToolRoundsBounded == Cardinality(ExecutedResponses) <= MAX_TOOL_ROUNDS

(***************************************************************************)
(* C12: the round counter stays within 0..MAX_TOOL_ROUNDS; a step changes  *)
(* it only by adding one, when a round of the loop has executed all its    *)
(* blocks and submits its results; a call with tools after the first is    *)
(* issued with the counter equal to the rounds completed so far, and the   *)
(* forced tool-less call with the counter at MAX_TOOL_ROUNDS.              *)
(***************************************************************************)
C12_CounterInRange ==
    /\ tool_use_round \in 0..MAX_TOOL_ROUNDS
    /\ pc \in {"idle", "first_response"} => tool_use_round = 0
    /\ (pc = "api" /\ site = "first") => tool_use_round = 0
    /\ (pc = "api" /\ site = "loop") =>
          /\ requests[ModelCalls].tools
          /\ tool_use_round = ModelCalls - 1
          /\ tool_use_round = Len(AssistantTurns)
    /\ (pc = "api" /\ site = "final") =>
          /\ ~requests[ModelCalls].tools
          /\ tool_use_round = MAX_TOOL_ROUNDS
    /\ \A k \in 1..ModelCalls : requests[k].tools => k - 1 <= MAX_TOOL_ROUNDS

C12_CounterStep ==
    \/ tool_use_round' = tool_use_round
    \/ /\ tool_use_round' = tool_use_round + 1
       /\ pc = "tool_loop"
       /\ blk > Len(current_response.content)
       /\ Len(messages') > Len(messages) => messages'[Len(messages')].content = tool_results

C12_RoundCounter == []C12_CounterInRange /\ [][C12_CounterStep]_vars

C12_Witness ==
    /\ tool_use_round = MAX_TOOL_ROUNDS
    /\ pc = "api"
    /\ site = "loop"
    /\ requests[ModelCalls].tools

(***************************************************************************)
(* C13: when a response holds two tool calls, the first naming the         *)
(* registered search tool and the second an unregistered tool, the round   *)
(* produces both results in request order, the first with the output of    *)
(* the search and the second with the "not found" text of the tool         *)
(* manager; nothing is raised by the round and the next model call is      *)
(* issued.                                                                 *)
(***************************************************************************)
\* a response made of a registered tool call followed by an unregistered one
IsMixedPair(content) ==
    /\ Len(content) = 2
    /\ content[1].type = "tool_use"
    /\ content[2].type = "tool_use"
    /\ content[1].name \in manager_tools
    /\ content[2].name \notin manager_tools

MixedPairResults(content) ==
    << [type |-> "tool_result", tool_use_id |-> content[1].id,
        content |-> SearchToolExecute(catalog, content[1].input).text],
       [type |-> "tool_result", tool_use_id |-> content[2].id,
        content |-> "Tool '" \o content[2].name \o "' not found"] >>

C13_UnknownToolInRound ==
    \A i \in 1..Len(messages) :
       (messages[i].role = "assistant" /\ IsMixedPair(messages[i].content)) =>
          IF RoundSubmitted(i)
          THEN /\ i < Len(messages)
               /\ messages[i + 1] = UserMessage(MixedPairResults(messages[i].content))
               /\ ModelCalls > messages[i].content[1].id[1]
               /\ pc = "raised" => exc.type \in {"IndexError", "AttributeError"}
          ELSE /\ exc = NoError
               /\ tool_results =
                     SubSeq(MixedPairResults(messages[i].content), 1, blk - 1)

C13_Witness ==
    /\ pc = "returned"
    /\ Len(messages) >= 3
    /\ IsMixedPair(messages[2].content)
    /\ messages[3].content[1].content = "[MCP - Lesson 0]\nchunk a"
    /\ messages[3].content[2].content = "Tool 'nonexistent_tool' not found"
    /\ ModelCalls = 2

(***************************************************************************)
(* C14: executing a name that is not registered returns the string         *)
(* "Tool '<name>' not found", raises nothing and leaves the registered     *)
(* tools and the source accumulator as they were, whatever is registered   *)
(* (nothing at all included), both when the tool manager is called         *)
(* directly and when generate_response calls it.                           *)
(***************************************************************************)
C14_DirectCall ==
    (/\ last_call' # last_call
     /\ last_call'.op = "execute_tool"
     /\ last_call'.name \notin manager_tools) =>
        /\ last_call'.value = "Tool '" \o last_call'.name \o "' not found"
        /\ UNCHANGED << manager_tools, last_sources, pc, exc >>

C14_InRun ==
    (/\ Len(executed') > Len(executed)
     /\ content_block.name \notin manager_tools) =>
        /\ tool_results'[Len(tool_results')].content =
              "Tool '" \o content_block.name \o "' not found"
        /\ UNCHANGED << manager_tools, last_sources, pc, exc >>

C14_UnknownNameIsSentinel == [][C14_DirectCall /\ C14_InRun]_vars

C14_Witness ==
    /\ manager_tools = {}
    /\ last_call.op = "execute_tool"
    /\ last_call.value = "Tool 'search_course_content' not found"
    /\ last_sources = << >>
    /\ pc = "idle"

(***************************************************************************)
(* C15: if each of the first n-1 responses holds a tool-use block, the     *)
(* n-th model call carries exactly 2n-1 messages: the user query, then per *)
(* earlier response the assistant turn with its whole content followed by  *)
(* the user turn with the results of its tool calls; roles alternate and   *)
(* the last message is a user turn.                                        *)
(***************************************************************************)
AllRequestTools(n) == \A k \in 1..n : ToolIds(responses[k].content) # << >>

IsPrefix(s, t) == Len(s) <= Len(t) /\ s = SubSeq(t, 1, Len(s))

C16_CallsExtend ==
    /\ \A n \in 1..ModelCalls :
          /\ requests[n].messages[1] = UserMessage(Query)
          /\ n < ModelCalls => IsPrefix(requests[n].messages, requests[n + 1].messages)
    /\ ModelCalls > 0 => IsPrefix(requests[ModelCalls].messages, messages)

C16_AppendOnly == []C16_CallsExtend /\ [][IsPrefix(messages, messages')]_vars

C16_Witness ==
    /\ ModelCalls = MAX_TOOL_ROUNDS + 2
    /\ Len(requests[1].messages) = 1
    /\ Len(requests[2].messages) = 3
    /\ Len(requests[3].messages) = 4
    /\ Len(requests[4].messages) = 6

(***************************************************************************)
(* C17: every model call of a run, the forced final one included, goes     *)
(* through the retry loop, and a retry repeats the model call only: it     *)
(* issues no new request, executes no tool and leaves the conversation     *)
(* alone, so each requested tool call is executed exactly once.            *)
(***************************************************************************)
C17_ExecutedOnce ==
    /\ \A i, j \in 1..Len(executed) : executed[i] = executed[j] => i = j
    /\ pc = "api" =>
          /\ attempt < max_retries
          /\ site \in {"first", "loop", "final"}
          /\ executed = RequestedIds(AssistantTurns, Len(AssistantTurns))
          /\ messages = requests[ModelCalls].messages
    /\ Len(responses) <= ModelCalls

C17_RetryStep ==
    (attempt' > attempt \/ tries' > tries) =>
        /\ pc = "api"
        /\ UNCHANGED << executed, messages, tool_results, requests, responses,
                        tool_use_round, faults >>

C17_RetryWrapsCallsOnly == []C17_ExecutedOnce /\ [][C17_RetryStep]_vars

C17_Witness ==
    /\ pc = "api"
    /\ site = "final"
    /\ attempt = max_retries - 1
    /\ Len(executed) = MAX_TOOL_ROUNDS + 1
    /\ delays = << 1, 2 >>

(***************************************************************************)
(* C18: the source accumulator holds one record per hit given to the       *)
(* model, in the order the hits were emitted: by rank within a tool call,  *)
(* by call within a round, by round within the run.  An execution appends  *)
(* the records of its hits behind those already there; nothing but a reset *)
(* removes a record.                                                       *)
(***************************************************************************)
\* the records of the hits one search with these arguments gives, by rank
HitRecords(name, input) ==
    IF name \notin manager_tools THEN << >>
    ELSE LET r == search(catalog, input.course_name, input.lesson_number)
         IN  [i \in 1..Len(r.documents) |-> SourceRecord(r.metadata[i])]

RECURSIVE EmittedBy(_)
\* the records of all hits of the executions `ids`, in execution order
EmittedBy(ids) ==
    IF ids = << >> THEN << >>
    ELSE LET id == ids[Len(ids)]
             b == responses[id[1]].content[id[2]]
         IN  EmittedBy(SubSeq(ids, 1, Len(ids) - 1)) \o HitRecords(b.name, b.input)

IsSuffix(s, t) ==
    Len(s) <= Len(t) /\ s = SubSeq(t, Len(t) - Len(s) + 1, Len(t))

C18_RunRecords ==
    (pc # "idle" /\ last_call = NoCall) =>
        IsSuffix(EmittedBy(executed), last_sources)

C18_SourcesStep ==
    \/ last_sources' = last_sources
    \/ /\ Len(executed') > Len(executed)
       /\ last_sources' =
             last_sources \o HitRecords(content_block.name, content_block.input)
    \/ /\ last_call'.op = "execute_tool"
       /\ last_sources' =
             last_sources \o HitRecords(last_call'.name, last_call'.input)
    \/ /\ last_call'.op = "reset_sources"
       /\ last_sources' = << >>

C18_SourcesInEmissionOrder == []C18_RunRecords /\ [][C18_SourcesStep]_vars

C18_Witness ==
    /\ pc = "api"
    /\ ModelCalls = 3
    /\ last_call = NoCall
    /\ executed = << << 1, 1 >>, << 1, 2 >>, << 2, 1 >> >>
    /\ Len(last_sources) = 4
    /\ last_sources[1].text = "MCP - Lesson 0"
    /\ last_sources[2].text = "MCP - Lesson 0"
    /\ last_sources[3].text = "MCP - Lesson 1"
    /\ last_sources[4].text = "MCP - Lesson 0"

(***************************************************************************)
(* C19: a search for a course that does not exist returns the error        *)
(* "No course found matching '<name>'" as its text and emits no source     *)
(* record.                                                                 *)
(***************************************************************************)
C19_UnknownCourseIsError ==
    (/\ last_call.op = "execute_tool"
     /\ last_call.name \in manager_tools
     /\ last_call.input.course_name = Some(UnknownCourse)) =>
        /\ last_call.value = "No course found matching '" \o UnknownCourse \o "'"
        /\ last_sources = << >>

(***************************************************************************)
(* C20: reset_sources empties the accumulator, so that get_last_sources    *)
(* right after it returns the empty list whatever was executed before;     *)
(* with no tool registered get_last_sources returns the empty list and     *)
(* reset_sources raises nothing; neither call changes the registered       *)
(* tools.                                                                  *)
(***************************************************************************)
C20_AfterReset ==
    last_call.op = "reset_sources" =>
        /\ last_sources = << >>
        /\ GetLastSources(manager_tools, last_sources) = << >>

C20_ResetStep ==
    (last_call' # last_call /\ last_call'.op = "reset_sources") =>
        /\ last_sources' = << >>
        /\ UNCHANGED << manager_tools, catalog, pc, exc >>

C20_SourcesStep ==
    (last_call' # last_call /\ last_call'.op = "get_last_sources") =>
        /\ last_call'.value = IF manager_tools = {} THEN << >> ELSE last_sources
        /\ last_call.op = "reset_sources" => last_call'.value = << >>
        /\ UNCHANGED << manager_tools, last_sources, catalog, pc, exc >>

C20_ResetEmptiesSources ==
    []C20_AfterReset /\ [][C20_ResetStep /\ C20_SourcesStep]_vars

C20_Witness ==
    /\ pc = "returned"
    /\ last_call.op = "get_last_sources"
    /\ last_call.value = << >>
    /\ last_sources = << >>
    /\ Len(messages) >= 3
    /\ messages[3].content[1].content = "[MCP - Lesson 0]\nchunk a"

(***************************************************************************)
(* C21: registering a tool whose definition has no name raises a           *)
(* validation error and leaves the registered tools as they were; a tool   *)
(* whose definition has a name is stored under exactly that name and its   *)
(* definition is among those get_tool_definitions returns.                 *)
(***************************************************************************)
C21_RegisterStep ==
    (last_call' # last_call /\ last_call'.op = "register_tool") =>
        IF last_call'.definition.name = None
        THEN /\ last_call'.raised = "ValueError"
             /\ manager_tools' = manager_tools
        ELSE /\ last_call'.raised = "None"
             /\ manager_tools' = manager_tools \cup {last_call'.definition.name[1]}
             /\ last_call'.definition \in GetToolDefinitions(manager_tools')

C21_Listed ==
    /\ "" \notin manager_tools
    /\ last_call.op = "get_tool_definitions" =>
          /\ Cardinality(last_call.value) = Cardinality(manager_tools)
          /\ \A n \in manager_tools : [name |-> Some(n)] \in last_call.value

C21_RegisterValidates == []C21_Listed /\ [][C21_RegisterStep]_vars

C21_Witness ==
    /\ last_call.op = "register_tool"
    /\ last_call.definition.name = None
    /\ last_call.raised = "ValueError"
    /\ manager_tools = {}

(***************************************************************************)
(* C22: build_filter is a function of (resolved course or None, lesson or  *)
(* None) with exactly four cases: (None, None) gives the empty filter,     *)
(* (C, None) the course-title filter, (None, n) the lesson-number filter,  *)
(* (C, n) the conjunction of both; lesson number 0 counts as set.  A       *)
(* search therefore returns exactly the chunks of the catalog that carry   *)
(* the resolved title (if a course was named) and the lesson number (if    *)
(* one was given, 0 included).                                             *)
(***************************************************************************)
C22_Courses == {None} \cup {Some(t) : t \in CourseTitles}
C22_Lessons == {None, Some(0), Some(1), Some(UnknownLesson)}

C22_FourCases ==
    \A course \in C22_Courses, lesson \in C22_Lessons :
        build_filter(course, lesson) =
            CASE course = None /\ lesson = None -> NoFilter
              [] course # None /\ lesson = None -> CourseFilter(course[1])
              [] course = None /\ lesson # None -> LessonFilter(lesson[1])
              [] course # None /\ lesson # None -> AndFilter(course[1], lesson[1])

\* the chunks a search for `input` has to return
C22_Selected(titles, input) ==
    LET title == IF input.course_name = None THEN None
                 ELSE ResolveCourse(titles, input.course_name[1])
    IN  SelectSeq(Content(titles),
                  LAMBDA c : /\ title = None \/ Some(c.course_title) = title
                             /\ input.lesson_number = None
                                  \/ c.lesson_number = input.lesson_number)

C22_SearchHonoursFilter ==
    (/\ last_call.op = "execute_tool"
     /\ last_call.name \in manager_tools
     /\ ~(last_call.input.course_name # None /\ catalog = {})) =>
        LET hits == Take(C22_Selected(catalog, last_call.input), MaxResults) IN
        last_call.value =
            IF hits = << >>
            THEN NoContentFound(last_call.input.course_name,
                                last_call.input.lesson_number)
            ELSE JoinBlocks([i \in 1..Len(hits) |->
                               FormatHit(hits[i].text,
                                         [course_title |-> hits[i].course_title,
                                          lesson_number |-> hits[i].lesson_number])])

C22_BuildFilter == C22_FourCases /\ C22_SearchHonoursFilter

C22_Witness ==
    /\ last_call.op = "execute_tool"
    /\ last_call.name \in manager_tools
    /\ last_call.input = Input(None, Some(0))
    /\ last_call.value = "[MCP - Lesson 0]\nchunk a"

(***************************************************************************)
(* C23: two generate_response runs interleaved on one AIGenerator never    *)
(* share their message list: every turn of every request a run issues was  *)
(* appended by that run (its own query, assistant turns of its own         *)
(* responses, results of its own tool calls); each run's round counter     *)
(* counts its own completed rounds only, and a step of one run leaves the  *)
(* other run's locals as they were.                                        *)
(***************************************************************************)
C23_OwnTurn(r, j, m) ==
    IF m.role = "assistant"
    THEN \A k \in 1..Len(m.content) : m.content[k].id[1] = r
    ELSE IF j = 1 THEN m.content = QueryOf(r)
    ELSE \A k \in 1..Len(m.content) : m.content[k].tool_use_id[1] = r

C23_ResultTurns(msgs) ==
    Cardinality({j \in 2..Len(msgs) : msgs[j].role = "user"})

C23_OwnContext ==
    \A r \in Threads :
        /\ \A i \in 1..Len(threads[r].requests) :
              LET msgs == threads[r].requests[i].messages IN
              \A j \in 1..Len(msgs) : C23_OwnTurn(r, j, msgs[j])
        /\ \A j \in 1..Len(threads[r].messages) :
              C23_OwnTurn(r, j, threads[r].messages[j])
        /\ threads[r].tool_use_round =
              Min(MAX_TOOL_ROUNDS, C23_ResultTurns(threads[r].messages))

C23_StepIsLocal ==
    \E r \in Threads : \A t \in Threads \ {r} : threads'[t] = threads[t]

C23_RunsIndependent == []C23_OwnContext /\ [][C23_StepIsLocal]_vars

C23_Witness ==
    /\ threads[1].pc = "api" /\ threads[1].tool_use_round = 1
    /\ threads[2].pc = "tools" /\ threads[2].tool_use_round = 2
    /\ Len(threads[1].requests) = 2
    /\ Len(threads[2].requests) = 3

(***************************************************************************)
(* C24: two overlapping queries served through one tool manager share its  *)
(* accumulator: every tool call of either query appends to it, the read of *)
(* either query reports all of it and the reset of either query empties    *)
(* it.  So there is an interleaving in which the sources reported for one  *)
(* query hold a record emitted by the other query's tool call, and the     *)
(* other query, reading after the first one's reset, loses its own.        *)
(***************************************************************************)
C24_Records(seq) == {seq[i] : i \in 1..Len(seq)}

C24_SharedStep ==
    \A r \in Threads :
        /\ (threads[r].pc = "returned" /\ threads'[r].pc = "read") =>
              /\ threads'[r].sources = last_sources
              /\ last_sources' = last_sources
        /\ (threads[r].pc = "read" /\ threads'[r].pc = "done") =>
              last_sources' = << >>
        /\ (threads'[r].blk = threads[r].blk + 1) =>
              /\ IsPrefix(threads[r].emitted, threads'[r].emitted)
              /\ last_sources' = last_sources \o
                    SubSeq(threads'[r].emitted, Len(threads[r].emitted) + 1,
                           Len(threads'[r].emitted))

C24_OnlyEmittedRecords ==
    \A r \in Threads :
        C24_Records(threads[r].sources) \cup C24_Records(last_sources)
            \subseteq UNION {C24_Records(threads[t].emitted) : t \in Threads}

C24_AccumulatorIsShared == []C24_OnlyEmittedRecords /\ [][C24_SharedStep]_vars

C24_Witness ==
    /\ threads[1].pc = "done"
    /\ threads[1].emitted = << SourceRecord([course_title |-> "MCP", lesson_number |-> Some(0)]) >>
    /\ threads[1].sources = << SourceRecord([course_title |-> "MCP", lesson_number |-> Some(0)]),
                               SourceRecord([course_title |-> "MCP", lesson_number |-> Some(1)]) >>
    /\ threads[2].pc = "read"
    /\ threads[2].emitted = << SourceRecord([course_title |-> "MCP", lesson_number |-> Some(1)]) >>
    /\ threads[2].sources = << >>

(***************************************************************************)
(* C25: the phases of a round are strictly ordered.  For a tool-requested  *)
(* response the assistant turn is appended first; its tool calls are then  *)
(* executed one per step in block order, each after the calls before it    *)
(* have produced their results; the results are appended as one turn and   *)
(* only then, in the same step, is the next model call issued.  No tool is *)
(* executed before the first model call has returned or after the forced   *)
(* final call has been issued.                                             *)
(***************************************************************************)
C25_RoundOpens ==
    (InToolLoop' /\ ~InToolLoop) =>
        /\ current_response.stop_reason = "tool_use"
        /\ messages' = Append(messages, AssistantMessage(current_response.content))
        /\ tool_results' = << >>
        /\ blk' = 1
        /\ UNCHANGED << executed, requests >>

C25_ToolExecutes ==
    (executed' # executed) =>
        /\ InToolLoop /\ pc' = pc
        /\ ModelCalls >= 1 /\ Len(responses) = ModelCalls
        /\ site # "final"
        /\ messages[Len(messages)].role = "assistant"
        /\ messages[Len(messages)].content = current_response.content
        /\ ResultIds(tool_results) =
              ToolIds(SubSeq(current_response.content, 1, blk - 1))
        /\ executed' = Append(executed, content_block.id)
        /\ Len(tool_results') = Len(tool_results) + 1
        /\ tool_results'[Len(tool_results')].tool_use_id = content_block.id
        /\ blk' = blk + 1
        /\ UNCHANGED << messages, requests >>

C25_NextCallIssued ==
    (requests' # requests /\ ModelCalls >= 1) =>
        /\ InToolLoop
        /\ blk > Len(current_response.content)
        /\ ResultIds(tool_results) = ToolIds(current_response.content)
        /\ ToolIds(current_response.content) # << >> =>
              messages' = Append(messages, UserMessage(tool_results))
        /\ requests' = Append(requests, requests'[Len(requests')])
        /\ requests'[Len(requests')].messages = messages'
        /\ executed' = executed

C25_NoToolOutsideRounds ==
    /\ Len(responses) = 0 => executed = << >>
    /\ ~InToolLoop => Len(AllResults) = Len(SubmittedResults(messages))

C25_PhasesOrdered ==
    /\ []C25_NoToolOutsideRounds
    /\ [][C25_RoundOpens /\ C25_ToolExecutes /\ C25_NextCallIssued]_vars

C25_Witness ==
    /\ pc = "api"
    /\ ModelCalls = 2
    /\ Len(responses) = 1
    /\ Len(executed) = 2
    /\ executed = ToolIds(responses[1].content)
    /\ Len(messages) = 3
    /\ ResultIds(messages[3].content) = executed

(***************************************************************************)
(* C26: the tool loop terminates when a tool execution error occurs: once  *)
(* a tool call has raised in the round of some response, no tool call of a *)
(* later response is executed in that run.                                 *)
(***************************************************************************)
C26_FaultEndsToolRounds ==
    \A f \in 1..Len(faults) : \A i \in 1..Len(executed) :
        executed[i][1] <= faults[f][1][1]

(***************************************************************************)
(* C27: in the messages of every model call each assistant turn is         *)
(* immediately followed by exactly one tool-result user turn, also when    *)
(* the tool-requested response it records holds no tool-use block.         *)
(***************************************************************************)
C27_ResultTurnFollows(msgs) ==
    \A i \in 1..Len(msgs) :
        msgs[i].role = "assistant" =>
            /\ i < Len(msgs)
            /\ msgs[i + 1].role = "user"
            /\ Len(msgs[i + 1].content) > 0
            /\ IsToolResultTurn(msgs[i + 1])

C27_EveryRoundSubmitsResults ==
    \A n \in 1..ModelCalls : C27_ResultTurnFollows(requests[n].messages)

(***************************************************************************)
(* C28: in every completed run the returned answer is the text of the last *)
(* model response received (its first block); text that an earlier         *)
(* response carried alongside tool-use blocks is never returned.           *)
(***************************************************************************)
C28_ReturnsLastResponseText ==
    pc = "returned" =>
        /\ Len(responses) = ModelCalls
        /\ current_response = LastResponse
        /\ HasFirstText(LastResponse)
        /\ result = LastResponse.content[1].text
        /\ result[1] = Len(responses)
        /\ \A n \in 1..(Len(responses) - 1) :
              \A p \in 1..Len(responses[n].content) :
                 responses[n].content[p].type = "text" =>
                    result # responses[n].content[p].text

C28_Witness ==
    /\ pc = "returned"
    /\ Len(responses) = MAX_TOOL_ROUNDS + 2
    /\ responses[1].stop_reason = "tool_use"
    /\ Len(responses[1].content) = 2
    /\ responses[1].content[1].type = "text"
    /\ responses[1].content[2].type = "tool_use"
    /\ result = << MAX_TOOL_ROUNDS + 2, 1 >>

(***************************************************************************)
(* C29: every model call of a run other than the forced final call carries *)
(* what the caller supplied as tools, with tool_choice auto whenever tools *)
(* are carried; all calls of a run carry the system prompt of the first;   *)
(* the forced final call is the only call that withholds supplied tools,   *)
(* it is the call after MAX_TOOL_ROUNDS completed rounds and is issued     *)
(* only when the response received after those rounds requests tools.      *)
(***************************************************************************)
C29_IsFinalCall(n) == n = MAX_TOOL_ROUNDS + 2

C29_CallParameters ==
    \A n \in 1..ModelCalls :
        /\ requests[n].system = requests[1].system
        /\ requests[n].system = SystemContent(SessionHistory)
        /\ requests[n].tool_choice = requests[n].tools
        /\ ~C29_IsFinalCall(n) => requests[n].tools = tools
        /\ C29_IsFinalCall(n) =>
              /\ tools /\ ~requests[n].tools
              /\ tool_use_round = MAX_TOOL_ROUNDS
              /\ RequestsTools(MAX_TOOL_ROUNDS + 1)
        /\ (tools /\ ~requests[n].tools) => C29_IsFinalCall(n)

C29_FinalCallStep ==
    (requests' # requests /\ ~requests'[Len(requests')].tools /\ tools) =>
        /\ pc = "final_tool_loop"
        /\ tool_use_round = MAX_TOOL_ROUNDS
        /\ current_response = responses[MAX_TOOL_ROUNDS + 1]
        /\ current_response.stop_reason = "tool_use"

C29_ToolsOnEveryCallButLast == []C29_CallParameters /\ [][C29_FinalCallStep]_vars

C29_Witness ==
    /\ pc = "api"
    /\ ModelCalls = MAX_TOOL_ROUNDS + 2
    /\ \A n \in 1..(MAX_TOOL_ROUNDS + 1) : requests[n].tools
    /\ ~requests[MAX_TOOL_ROUNDS + 2].tools
    /\ requests[MAX_TOOL_ROUNDS + 2].system # SYSTEM_PROMPT

(***************************************************************************)
(* C30: all retryable error classes draw on one attempt budget per model   *)
(* call.  Whatever classes the failed attempts of a call had, attempt k    *)
(* is followed by the delay retry_delay * 2^k, the call gives up after     *)
(* max_retries attempts in all with the delays 1, 2, and what it raises is *)
(* the error of its last attempt.                                          *)
(***************************************************************************)
C30_AllRetryable(es) == \A i \in 1..Len(es) : es[i] \in RetryableErrors

C30_Budget ==
    /\ Len(errors) = tries
    /\ pc = "api" =>
          /\ C30_AllRetryable(errors)
          /\ attempt = Len(errors)
          /\ Len(errors) < max_retries
          /\ delays = Schedule(Len(errors))
    /\ (pc = "raised" /\ exc.type \in RetryableErrors) =>
          /\ C30_AllRetryable(errors)
          /\ Len(errors) = max_retries
          /\ delays = Schedule(max_retries - 1)
          /\ exc.type = errors[max_retries]
          /\ exc.attempt = max_retries - 1
          /\ exc = last_exception

C30_FailedAttempt ==
    (Len(errors') = Len(errors) + 1 /\ errors'[Len(errors')] \in RetryableErrors) =>
        IF Len(errors) < max_retries - 1
        THEN /\ pc' = "api"
             /\ attempt' = attempt + 1
             /\ delays' = Append(delays, retry_delay * 2 ^ Len(errors))
        ELSE /\ pc' = "raised"
             /\ exc'.type = errors'[Len(errors')]
             /\ delays' = delays

C30_OneBudgetForAllClasses == []C30_Budget /\ [][C30_FailedAttempt]_vars

C30_Witness ==
    /\ pc = "raised"
    /\ errors = << "RateLimitError", "APIConnectionError", "APITimeoutError" >>
    /\ exc.type = "APITimeoutError"
    /\ tries = max_retries
    /\ delays = << 1, 2 >>

(***************************************************************************)
(* C31: the retry budget is per model call.  Every logical model call      *)
(* starts at attempt index 0 with no exception kept and nothing slept, its *)
(* first delay is the base delay, it makes at most max_retries attempts,   *)
(* and a run issues at most MAX_TOOL_ROUNDS + 2 calls: at most             *)
(* max_retries * (MAX_TOOL_ROUNDS + 2) attempts in all.                    *)
(***************************************************************************)
C31_CallStartsFresh ==
    (requests' # requests) =>
        /\ Len(requests') = Len(requests) + 1
        /\ attempt' = 0
        /\ tries' = 0
        /\ delays' = << >>
        /\ errors' = << >>
        /\ last_exception' = NoError

C31_AttemptsBounded ==
    /\ tries <= max_retries
    /\ ModelCalls <= MAX_TOOL_ROUNDS + 2
    /\ pc = "api" => attempt = tries
    /\ delays # << >> => delays[1] = retry_delay
    \* the calls before the running one made at most max_retries attempts each
    /\ ModelCalls > 0 =>
          (ModelCalls - 1) * max_retries + tries
              <= max_retries * (MAX_TOOL_ROUNDS + 2)

C31_BudgetPerCall == []C31_AttemptsBounded /\ [][C31_CallStartsFresh]_vars

C31_Witness ==
    /\ pc = "raised"
    /\ ModelCalls = MAX_TOOL_ROUNDS + 2
    /\ site = "final"
    /\ tries = max_retries
    /\ exc.type \in RetryableErrors
    /\ exc.attempt = max_retries - 1
    /\ delays = << retry_delay, 2 * retry_delay >>

(***************************************************************************)
(* C32: a failed attempt of a model call changes nothing of the run but    *)
(* the retry bookkeeping (attempt index, kept exception, delay slept).     *)
(* Every attempt of a logical call sends the api_params of its first       *)
(* attempt: the messages, which are the conversation as it stands, the     *)
(* system prompt and the tool definitions; the conversation and the round  *)
(* counter do not change between the attempts.                             *)
(***************************************************************************)
C32_ParamsOfAttempt ==
    pc = "api" =>
        /\ requests[ModelCalls].messages = messages
        /\ requests[ModelCalls].system = base_params.system
        /\ requests[ModelCalls].tools = (tools /\ site # "final")
        /\ requests[ModelCalls].tool_choice = requests[ModelCalls].tools

C32_FailedAttemptFrame ==
    (pc = "api" /\ pc' = "api" /\ tries' # tries) =>
        /\ tries' = tries + 1
        /\ attempt' = attempt + 1
        /\ UNCHANGED << requests, messages, tool_use_round, tools, tool_manager,
                        current_response, blk, tool_results, site, responses,
                        executed, faults, result, exc >>

C32_RetrySendsSameParams == []C32_ParamsOfAttempt /\ [][C32_FailedAttemptFrame]_vars

C32_Witness ==
    /\ pc = "api"
    /\ site = "loop"
    /\ ModelCalls = 2
    /\ attempt = max_retries - 1
    /\ tool_use_round = 1
    /\ Len(messages) = 3
    /\ requests[2].tools

(***************************************************************************)
(* C33: when a model call made after one or more tool rounds fails         *)
(* terminally (a non-retryable error, or a retryable one at the last       *)
(* attempt), the exception leaves generate_response in that very step: the *)
(* run takes no further step, so no tool is executed and no model call is  *)
(* issued after it, and the tool calls executed before it and the          *)
(* conversation built from them stay as they were.                         *)
(***************************************************************************)
C33_IsTerminalFailure ==
    /\ pc = "api"
    /\ Len(errors') = Len(errors) + 1
    /\ \/ errors'[Len(errors')] \notin RetryableErrors
       \/ Len(errors') = max_retries

C33_FailurePropagates ==
    C33_IsTerminalFailure =>
        /\ pc' = "raised"
        /\ exc'.type = errors'[Len(errors')]
        /\ exc'.call = ModelCalls
        /\ UNCHANGED << requests, responses, executed, faults, messages,
                        tool_results, tool_use_round, result >>

C33_RaisedIsFinal == (pc = "raised") => UNCHANGED vars

C33_AfterFailure ==
    (pc = "raised" /\ exc.type \in ApiErrors) =>
        /\ exc.call = ModelCalls
        /\ Len(responses) = ModelCalls - 1
        /\ result = NoResult
        /\ executed = RequestedIds(responses, Len(responses))
        /\ messages = requests[ModelCalls].messages

C33_TerminalFailureEndsRun ==
    /\ []C33_AfterFailure
    /\ [][C33_FailurePropagates /\ C33_RaisedIsFinal]_vars

C33_Witness ==
    /\ pc = "raised"
    /\ exc.type = "AuthenticationError"
    /\ exc.call = 3
    /\ site = "loop"
    /\ Len(executed) >= 2
    /\ executed = RequestedIds(responses, 2)
    /\ Len(messages) = 5

(***************************************************************************)
(* C34: called without a tool manager, generate_response makes exactly one *)
(* model call, executes no tool whatever stop reason the response has, and *)
(* returns a text answer.  Stated for a first response that is not empty   *)
(* and whose stop reason is tool_use exactly when it holds a tool-use      *)
(* block.                                                                  *)
(***************************************************************************)
C34_WellFormed(r) ==
    /\ Len(r.content) > 0
    /\ (r.stop_reason = "tool_use") <=> (ToolIds(r.content) # << >>)

C34_NoManagerReturnsText ==
    (/\ ~tool_manager
     /\ Len(responses) >= 1
     /\ C34_WellFormed(responses[1])
     /\ pc # "first_response") =>
        /\ ModelCalls = 1
        /\ executed = << >>
        /\ pc = "returned"
        /\ result # NoResult

(***************************************************************************)
(* C35: for every configured max_retries, 0 included, a call of            *)
(* _make_api_call_with_retry either raises or returns the response of a    *)
(* successful attempt: whenever it has returned to generate_response, the  *)
(* caller holds a response that the service sent.                          *)
(***************************************************************************)
C35_ReturnsAResponse ==
    pc = "first_response" =>
        /\ current_response # NoResponse
        /\ Len(responses) = ModelCalls
        /\ current_response = LastResponse

====
